---- MODULE Spec2Model ----
(***************************************************************************)
(* A model of the agentlego tool adapters: the GoogleSearch tool           *)
(* (tools/search/google.py), the diffusers loaders (tools/utils/           *)
(* diffusers.py) and the two model-backed tools ScribbleTextToImage and    *)
(* VisualQuestionAnswering.                                                *)
(*                                                                         *)
(* Python strings are TLA+ strings, Python dicts are functions whose       *)
(* domain is the set of keys present, Python lists are sequences.          *)
(***************************************************************************)
EXTENDS Integers, Sequences, FiniteSets, TLC

VARIABLES
    env,         \* os.environ: the value of SERPER_API_KEY, or NoneVal when unset
    gs,          \* the GoogleSearch instance: its attributes, or why there is none
    requests,    \* every requests.post issued so far, in order
    ctor,        \* the arguments GoogleSearch(...) was called with, if it was
    applied,     \* per tool, number of apply() calls made so far
    provider,    \* the reply the provider is set to give, when one is fixed
    lastReply,   \* what the provider did with the last POST
    last,        \* how the last GoogleSearch.apply ended
    cache,       \* load_or_build_object's process-wide cache: key -> object id
    heap,        \* every object built so far; an object's identity is its index
    loads,       \* every load_sd / load_sdxl call so far with what it returned
    tools,       \* the model-backed tool instances and their attributes
    modelCalls   \* every call of a loaded pipeline / inferencer, in order

vars == <<env, gs, ctor, requests, applied, provider, lastReply, last,
          cache, heap, loads, tools, modelCalls>>

-----------------------------------------------------------------------------
(* Bounds of the model                                                     *)

MaxK == 2          \* k ranges over 0..MaxK
MaxItems == 2      \* longest category result list in a response
MaxApply == 2      \* apply() calls explored per behaviour
MaxLoads == 2      \* load_sd / load_sdxl calls explored per behaviour

-----------------------------------------------------------------------------
(* Python built-ins used by the code                                       *)

NoneVal == "<None>"

EmptyDict == [key \in {} |-> ""]

\* d.get(key) is truthy: the key is present and its value is not empty
Has(d, key) == key \in DOMAIN d /\ Len(d[key]) > 0

Min(a, b) == IF a < b THEN a ELSE b

\* s[:n] for a string or a list, with Python's reading of a negative n
SliceTo(s, n) ==
    IF n >= 0 THEN SubSeq(s, 1, Min(n, Len(s)))
    ELSE IF Len(s) + n > 0 THEN SubSeq(s, 1, Len(s) + n) ELSE SubSeq(s, 1, 0)

\* f'{n}' for an integer
RECURSIVE Digits(_)
Digits(n) ==
    IF n < 10 THEN SubSeq("0123456789", n + 1, n + 1)
    ELSE Digits(n \div 10) \o SubSeq("0123456789", (n % 10) + 1, (n % 10) + 1)

IntToStr(n) == IF n < 0 THEN "-" \o Digits(0 - n) ELSE Digits(n)

\* p in s, for strings
Contains(s, p) == \E i \in 1..(Len(s) - Len(p) + 1) : SubSeq(s, i, i + Len(p) - 1) = p

IsSpace(c) == c \in {" ", "\n", "\t", "\r"}

RECURSIVE LStrip(_)
LStrip(s) ==
    IF Len(s) > 0 /\ IsSpace(SubSeq(s, 1, 1)) THEN LStrip(SubSeq(s, 2, Len(s)))
    ELSE s

RECURSIVE RStrip(_)
RStrip(s) ==
    IF Len(s) > 0 /\ IsSpace(SubSeq(s, Len(s), Len(s)))
    THEN RStrip(SubSeq(s, 1, Len(s) - 1))
    ELSE s

\* str.strip()
Strip(s) == RStrip(LStrip(s))

\* str.replace('\n', ' ')
RECURSIVE ReplaceNewline(_)
ReplaceNewline(s) ==
    IF Len(s) = 0 THEN ""
    ELSE (IF SubSeq(s, 1, 1) = "\n" THEN " " ELSE SubSeq(s, 1, 1))
         \o ReplaceNewline(SubSeq(s, 2, Len(s)))

\* ', '.join(f'{k}: {v}' for k, v in attributes.items()); a dict of attributes
\* is the sequence of its <<key, value>> pairs in insertion order
RECURSIVE JoinAttributes(_)
JoinAttributes(attrs) ==
    IF Len(attrs) = 0 THEN ""
    ELSE attrs[1][1] \o ": " \o attrs[1][2]
         \o (IF Len(attrs) > 1 THEN ", " ELSE "")
         \o JoinAttributes(Tail(attrs))

-----------------------------------------------------------------------------
(* GoogleSearch                                                            *)

result_key_for_type ==
    [news |-> "news", places |-> "places", images |-> "images", search |-> "organic"]

NoResultSentinel == "No good Google Search Result was found"

\* AnswerBoxSnippets with the snippet preferred to the explicit answer
AnswerBoxSnippets_SnippetFirst(results) ==
    LET answer_box == IF "answerBox" \in DOMAIN results
                      THEN results["answerBox"] ELSE EmptyDict
    IN  IF DOMAIN answer_box = {} THEN <<>>
        ELSE << "Answer box: " \o
                (IF Has(answer_box, "snippet") THEN answer_box["snippet"]
                 ELSE IF Has(answer_box, "answer") THEN answer_box["answer"]
                 ELSE IF Has(answer_box, "snippetHighlighted")
                      THEN answer_box["snippetHighlighted"]
                 ELSE "") >>

\* lines 106-115: the answer box fragment, if any
AnswerBoxSnippets(results) ==
    LET answer_box == IF "answerBox" \in DOMAIN results
                      THEN results["answerBox"] ELSE EmptyDict
    IN  IF DOMAIN answer_box = {} THEN <<>>
        ELSE << "Answer box: " \o
                (IF Has(answer_box, "answer") THEN answer_box["answer"]
                 ELSE IF Has(answer_box, "snippet") THEN answer_box["snippet"]
                 ELSE IF Has(answer_box, "snippetHighlighted")
                      THEN answer_box["snippetHighlighted"]
                 ELSE "") >>

\* lines 117-130: the knowledge graph fragment, if any
KnowledgeGraphSnippets(results) ==
    LET kg == IF "knowledgeGraph" \in DOMAIN results
              THEN results["knowledgeGraph"] ELSE EmptyDict
    IN  IF DOMAIN kg = {} THEN <<>>
        ELSE << (IF Has(kg, "title") THEN kg["title"] \o " knowledge graph: "
                 ELSE "Knowledge graph: ")
                \o (IF Has(kg, "type") THEN kg["type"] \o ". " ELSE "")
                \o (IF Has(kg, "description") THEN kg["description"] ELSE "")
                \o (IF Has(kg, "attributes")
                    THEN "(" \o JoinAttributes(kg["attributes"]) \o ")" ELSE "") >>

\* ItemContent with the link embedded whatever with_url says
ItemContent_AlwaysUrl(self, item) ==
    (IF Has(item, "title") THEN item["title"] \o ": " ELSE "")
    \o (IF Has(item, "link") THEN "(" \o item["link"] \o ")" ELSE "")
    \o (IF Has(item, "snippet") THEN item["snippet"] ELSE "")
    \o (IF Has(item, "attributes")
        THEN "(" \o JoinAttributes(item["attributes"]) \o ")" ELSE "")

\* lines 134-144: the fragment of one category result
ItemContent(self, item) ==
    (IF Has(item, "title") THEN item["title"] \o ": " ELSE "")
    \o (IF Has(item, "link") /\ self.with_url THEN "(" \o item["link"] \o ")" ELSE "")
    \o (IF Has(item, "snippet") THEN item["snippet"] ELSE "")
    \o (IF Has(item, "attributes")
        THEN "(" \o JoinAttributes(item["attributes"]) \o ")" ELSE "")

\* lines 132-145: the fragments of the first k category results
ItemSnippets(self, items) ==
    LET firstK == SliceTo(items, self.k)
    IN  [i \in 1..Len(firstK) |-> ItemContent(self, firstK[i])]

\* lines 150-153: strip, drop newlines, number from 1
RECURSIVE NumberFrom(_, _)
NumberFrom(snippets, idx) ==
    IF Len(snippets) = 0 THEN ""
    ELSE IntToStr(idx + 1) \o " - " \o ReplaceNewline(Strip(Head(snippets))) \o "\n\n"
         \o NumberFrom(Tail(snippets), idx + 1)

\* Truncate keeping one character more than the cap
Truncate_OffByOne(self, result) ==
    IF Len(result) > self.max_out_len
    THEN SliceTo(result, self.max_out_len + 1) \o "..."
    ELSE result

\* lines 155-156
Truncate(self, result) ==
    IF Len(result) > self.max_out_len
    THEN SliceTo(result, self.max_out_len) \o "..."
    ELSE result

Returned(value, snippets) ==
    [kind |-> "return", exc |-> "", msg |-> "", value |-> value, snippets |-> snippets]

Raised(exc, msg) ==
    [kind |-> "raise", exc |-> exc, msg |-> msg, value |-> "", snippets |-> <<>>]

\* _parse_results without the check for an empty fragment list
parse_results_NoSentinel(self, results) ==
    LET key == result_key_for_type[self.search_type]
    IN  IF key \notin DOMAIN results THEN Raised("KeyError", key)
        ELSE LET snippets == AnswerBoxSnippets(results)
                             \o KnowledgeGraphSnippets(results)
                             \o ItemSnippets(self, results[key])
             IN  Returned(Truncate(self, NumberFrom(snippets, 0)), snippets)

\* _parse_results with the knowledge graph extracted before the answer box
parse_results_GraphFirst(self, results) ==
    LET key == result_key_for_type[self.search_type]
    IN  IF key \notin DOMAIN results THEN Raised("KeyError", key)
        ELSE LET snippets == KnowledgeGraphSnippets(results)
                             \o AnswerBoxSnippets(results)
                             \o ItemSnippets(self, results[key])
             IN  IF Len(snippets) = 0 THEN Returned(NoResultSentinel, snippets)
                 ELSE Returned(Truncate(self, NumberFrom(snippets, 0)), snippets)

\* GoogleSearch._parse_results; results[...] raises KeyError when the response
\* has no list under the category key of the search type
parse_results(self, results) ==
    LET key == result_key_for_type[self.search_type]
    IN  IF key \notin DOMAIN results THEN Raised("KeyError", key)
        ELSE LET snippets == AnswerBoxSnippets(results)
                             \o KnowledgeGraphSnippets(results)
                             \o ItemSnippets(self, results[key])
             IN  IF Len(snippets) = 0 THEN Returned(NoResultSentinel, snippets)
                 ELSE Returned(Truncate(self, NumberFrom(snippets, 0)), snippets)

\* str(results) of the JSON object of an error response, {'message': '...'}
DictStr(d) == "{'message': '" \o d["message"] \o "'}"

\* requests.Response.json(): the parsed body, or JSONDecodeError
IsJson(body) == body.json

\* GoogleSearch._search, lines 176-191: the request it posts
SearchRequest(self, query, search_type, k) ==
    [url     |-> "https://google.serper.dev/" \o search_type,
     headers |-> [api_key |-> self.api_key, content_type |-> "application/json"],
     params  |-> [k |-> k, q |-> query],
     timeout |-> self.timeout]

\* GoogleSearch._search, lines 183-191: what it hands back for the provider's
\* reply to that one request.  A transport exception inside the try becomes
\* status -1; response.json() sits outside the try, so a body that is not JSON
\* escapes as JSONDecodeError whatever the status is.
search(reply) ==
    IF reply.kind = "exception"
    THEN [raised |-> FALSE, status_code |-> -1, results |-> reply.text]
    ELSE IF ~IsJson(reply.body)
    THEN [raised |-> TRUE, status_code |-> reply.status, results |-> ""]
    ELSE [raised |-> FALSE, status_code |-> reply.status, results |-> reply.body.value]

\* GoogleSearch.apply, lines 84-91, after the POST
apply_result(self, reply) ==
    LET r == search(reply)
    IN  IF r.raised THEN Raised("JSONDecodeError", "")
        ELSE IF r.status_code = 200 THEN parse_results(self, r.results)
        ELSE Raised("ConnectionError",
                    "Error " \o IntToStr(r.status_code) \o ": "
                    \o (IF reply.kind = "exception" THEN r.results
                        ELSE DictStr(r.results)))

NoInstance(st, err) ==
    [st |-> st, err |-> err, api_key |-> NoneVal, timeout |-> 0,
     search_type |-> "", k |-> 0, max_out_len |-> 0, with_url |-> FALSE]

NoCall == [called |-> FALSE, api_key |-> NoneVal]

NoReply == [kind |-> "none"]

NotApplied == [kind |-> "none", exc |-> "", msg |-> "", value |-> "", snippets |-> <<>>]

\* __init__ testing the key against None only, so that '' passes
GoogleSearch_init_NoneOnly(api_key, timeout, search_type, max_out_len, with_url, k) ==
    LET key == IF api_key = "env" THEN env ELSE api_key
    IN  /\ gs.st = "unbuilt"
        /\ ctor' = [called |-> TRUE, api_key |-> api_key]
        /\ gs' = IF key = NoneVal
                 THEN NoInstance("failed", "ValueError")
                 ELSE [st |-> "ready", err |-> "", api_key |-> key,
                       timeout |-> timeout, search_type |-> search_type,
                       k |-> k, max_out_len |-> max_out_len, with_url |-> with_url]
        /\ UNCHANGED <<env, requests, applied, provider, lastReply, last,
                       cache, heap, loads, tools, modelCalls>>

\* GoogleSearch.__init__, lines 67-81
GoogleSearch_init(api_key, timeout, search_type, max_out_len, with_url, k) ==
    LET key == IF api_key = "env" THEN env ELSE api_key
    IN  /\ gs.st = "unbuilt"
        /\ ctor' = [called |-> TRUE, api_key |-> api_key]
        /\ gs' = IF key \in {NoneVal, ""}
                 THEN NoInstance("failed", "ValueError")
                 ELSE [st |-> "ready", err |-> "", api_key |-> key,
                       timeout |-> timeout, search_type |-> search_type,
                       k |-> k, max_out_len |-> max_out_len, with_url |-> with_url]
        /\ UNCHANGED <<env, requests, applied, provider, lastReply, last,
                       cache, heap, loads, tools, modelCalls>>

\* apply() calls made so far, over all tools
CallsSoFar ==
    applied["search"] + applied["scribble"] + applied["scribble2"] + applied["vqa"]

\* GoogleSearch.apply, lines 83-91, with the _search it calls
GoogleSearch_apply(query, reply) ==
    /\ gs.st = "ready"
    /\ CallsSoFar < MaxApply
    /\ applied' = [applied EXCEPT !["search"] = @ + 1]
    /\ requests' = Append(requests, SearchRequest(gs, query, gs.search_type, gs.k))
    /\ lastReply' = reply
    /\ last' = apply_result(gs, reply)
    /\ UNCHANGED <<env, gs, ctor, provider, cache, heap, loads, tools, modelCalls>>

-----------------------------------------------------------------------------
(* The loaders of tools/utils/diffusers.py                                 *)

\* an object as from_pretrained or a constructor leaves it; 0 stands for None
\* among object ids
NewObject(cls, model, variant, dtype, vae, base, controlnet) ==
    [cls |-> cls, model |-> model, variant |-> variant, dtype |-> dtype,
     vae |-> vae, base |-> base, controlnet |-> controlnet, dev |-> "cpu"]

\* the cache key of a load_or_build_object call: the builder and its arguments
CacheKey(fn, model, variant, dtype, vae, device) ==
    [fn |-> fn, model |-> model, variant |-> variant, dtype |-> dtype,
     vae |-> vae, device |-> device]

\* agentlego.utils.load_or_build_object: the object cached under the key, or
\* the object the builder makes, cached from then on
load_or_build_object(c, h, key, built) ==
    IF key \in DOMAIN c
    THEN [cache |-> c, heap |-> h, id |-> c[key]]
    ELSE [cache |-> c @@ (key :> (Len(h) + 1)), heap |-> Append(h, built),
          id |-> Len(h) + 1]

\* the objects a pipeline holds as components, itself included
ComponentsOf(h, id) ==
    LET own == {id, h[id].vae, h[id].base, h[id].controlnet}
        inner == {h[b].vae : b \in ({h[id].base} \ {0})}
    IN  (own \cup inner) \ {0}

\* pipeline.to(device): moves the pipeline's components in place, returns self
MoveTo(h, id, device) ==
    [o \in 1..Len(h) |->
        IF o \in ComponentsOf(h, id) THEN [h[o] EXCEPT !.dev = device] ELSE h[o]]

\* line 19 / line 63
DtypeFor(device) == IF Contains(device, "cuda") THEN "float16" ELSE "float32"

\* load_sd with the text-to-image pipeline built afresh on every call
load_pipeline_Uncached(cls, cncls, model, variant, vae, vae_variant, controlnet, controlnet_variant, device) ==
    LET dtype == DtypeFor(device)
        s1 == IF vae # NoneVal
              THEN load_or_build_object(cache, heap,
                       CacheKey("AutoencoderKL.from_pretrained", vae, vae_variant,
                                dtype, 0, ""),
                       NewObject("AutoencoderKL", vae, vae_variant, dtype, 0, 0, 0))
              ELSE [cache |-> cache, heap |-> heap, id |-> 0]
        s2 == [cache |-> s1.cache,
               heap |-> Append(s1.heap, NewObject(cls, model, variant, dtype, s1.id, 0, 0)),
               id |-> Len(s1.heap) + 1]
    IN  IF controlnet = NoneVal
        THEN [cache |-> s2.cache, heap |-> MoveTo(s2.heap, s2.id, device), ret |-> s2.id]
        ELSE LET s3 == load_or_build_object(s2.cache, s2.heap,
                           CacheKey("ControlNetModel.from_pretrained", controlnet,
                                    controlnet_variant, dtype, 0, ""),
                           NewObject("ControlNetModel", controlnet, controlnet_variant,
                                     dtype, 0, 0, 0))
                 pipe == Len(s3.heap) + 1
                 h4 == Append(s3.heap,
                              NewObject(cncls, model, variant, dtype, s1.id, s2.id, s3.id))
             IN  [cache |-> s3.cache, heap |-> MoveTo(h4, pipe, device), ret |-> pipe]

\* the body shared by load_sd (lines 19-48) and load_sdxl (lines 63-92), which
\* differ in the two pipeline classes only
load_pipeline(cls, cncls, model, variant, vae, vae_variant, controlnet, controlnet_variant, device) ==
    LET dtype == DtypeFor(device)
        s1 == IF vae # NoneVal
              THEN load_or_build_object(cache, heap,
                       CacheKey("AutoencoderKL.from_pretrained", vae, vae_variant,
                                dtype, 0, ""),
                       NewObject("AutoencoderKL", vae, vae_variant, dtype, 0, 0, 0))
              ELSE [cache |-> cache, heap |-> heap, id |-> 0]
        s2 == load_or_build_object(s1.cache, s1.heap,
                  CacheKey(cls \o ".from_pretrained", model, variant, dtype, s1.id, ""),
                  NewObject(cls, model, variant, dtype, s1.id, 0, 0))
    IN  IF controlnet = NoneVal
        THEN [cache |-> s2.cache, heap |-> MoveTo(s2.heap, s2.id, device), ret |-> s2.id]
        ELSE LET s3 == load_or_build_object(s2.cache, s2.heap,
                           CacheKey("ControlNetModel.from_pretrained", controlnet,
                                    controlnet_variant, dtype, 0, ""),
                           NewObject("ControlNetModel", controlnet, controlnet_variant,
                                     dtype, 0, 0, 0))
                 pipe == Len(s3.heap) + 1
                 h4 == Append(s3.heap,
                              NewObject(cncls, model, variant, dtype,
                                        s3.heap[s2.id].vae, s2.id, s3.id))
             IN  [cache |-> s3.cache, heap |-> MoveTo(h4, pipe, device), ret |-> pipe]

LoadArgs(model, variant, vae, vae_variant, controlnet, controlnet_variant, device) ==
    [model |-> model, variant |-> variant, vae |-> vae, vae_variant |-> vae_variant,
     controlnet |-> controlnet, controlnet_variant |-> controlnet_variant,
     device |-> device]

\* a call of one of the two loaders, recorded with what it returned
Loaded(fn, args, r) ==
    /\ Len(loads) < MaxLoads
    /\ cache' = r.cache
    /\ heap' = r.heap
    /\ loads' = Append(loads, [fn |-> fn, args |-> args, ret |-> r.ret])
    /\ UNCHANGED <<env, gs, ctor, requests, applied, provider, lastReply, last,
                   tools, modelCalls>>

\* load_sd, lines 7-48
load_sd(model, variant, vae, vae_variant, controlnet, controlnet_variant, device) ==
    Loaded("load_sd",
           LoadArgs(model, variant, vae, vae_variant, controlnet,
                    controlnet_variant, device),
           load_pipeline("StableDiffusionPipeline", "StableDiffusionControlNetPipeline",
                         model, variant, vae, vae_variant, controlnet,
                         controlnet_variant, device))

\* load_sdxl, lines 51-92
load_sdxl(model, variant, vae, vae_variant, controlnet, controlnet_variant, device) ==
    Loaded("load_sdxl",
           LoadArgs(model, variant, vae, vae_variant, controlnet,
                    controlnet_variant, device),
           load_pipeline("StableDiffusionXLPipeline",
                         "StableDiffusionXLControlNetPipeline",
                         model, variant, vae, vae_variant, controlnet,
                         controlnet_variant, device))

-----------------------------------------------------------------------------
(* ScribbleTextToImage and VisualQuestionAnswering                         *)

NoTool ==
    [built |-> FALSE, ready |-> FALSE, cls |-> "", model |-> "", device |-> "",
     handle |-> 0, a_prompt |-> "", n_prompt |-> ""]

ToolClass(t) == IF t = "vqa" THEN "VisualQuestionAnswering" ELSE "ScribbleTextToImage"

A_PROMPT == "best quality, extremely detailed, 4k, master piece"
N_PROMPT ==
    "longbody, lowres, bad anatomy, bad hands,  missing fingers, extra digit, "
    \o "fewer digits, cropped, worst quality, low quality"

\* the framework runs setup() before the first apply()
IsSetUp(t) == tools[t].built /\ tools[t].ready

\* ScribbleTextToImage.__init__ (lines 41-43) and
\* VisualQuestionAnswering.__init__ (lines 37-39): both keep model and device
Tool_init(t, model, device) ==
    /\ ~tools[t].built
    /\ tools' = [tools EXCEPT ![t] =
                    [NoTool EXCEPT !.built = TRUE, !.cls = ToolClass(t),
                                   !.model = model, !.device = device]]
    /\ UNCHANGED <<env, gs, ctor, requests, applied, provider, lastReply, last,
                   cache, heap, loads, modelCalls>>

\* ScribbleTextToImage.setup, lines 45-54
ScribbleTextToImage_setup(t) ==
    LET self == tools[t]
        r == load_or_build_object(cache, heap,
                 CacheKey("load_diffusion_inferencer", self.model, "", "", 0,
                          self.device),
                 NewObject("DiffusionInferencer", self.model, "", "", 0, 0, 0))
    IN  /\ ToolClass(t) = "ScribbleTextToImage"
        /\ self.built
        /\ cache' = r.cache
        /\ heap' = r.heap
        /\ tools' = [tools EXCEPT ![t] =
                        [self EXCEPT !.ready = TRUE, !.handle = r.id,
                                     !.a_prompt = A_PROMPT, !.n_prompt = N_PROMPT]]
        /\ UNCHANGED <<env, gs, ctor, requests, applied, provider, lastReply, last,
                       loads, modelCalls>>

\* VisualQuestionAnswering.setup, lines 41-47
VisualQuestionAnswering_setup(t) ==
    LET self == tools[t]
        r == load_or_build_object(cache, heap,
                 CacheKey("VisualQuestionAnsweringInferencer", self.model, "", "", 0,
                          self.device),
                 NewObject("VisualQuestionAnsweringInferencer", self.model, "", "",
                           0, 0, 0))
    IN  /\ ToolClass(t) = "VisualQuestionAnswering"
        /\ self.built
        /\ cache' = r.cache
        /\ heap' = r.heap
        /\ tools' = [tools EXCEPT ![t] = [self EXCEPT !.ready = TRUE, !.handle = r.id]]
        /\ UNCHANGED <<env, gs, ctor, requests, applied, provider, lastReply, last,
                       loads, modelCalls>>

\* apply() that also appends the caller's text to the stored prompt
ScribbleTextToImage_apply_KeepsText(t, image, text) ==
    LET self == tools[t]
        prompt == text \o ", " \o self.a_prompt
    IN  /\ ToolClass(t) = "ScribbleTextToImage"
        /\ IsSetUp(t)
        /\ CallsSoFar < MaxApply
        /\ applied' = [applied EXCEPT ![t] = @ + 1]
        /\ tools' = [tools EXCEPT ![t] = [self EXCEPT !.a_prompt = prompt]]
        /\ modelCalls' = Append(modelCalls,
               [tool |-> t, handle |-> self.handle,
                inputs |-> [image |-> image, text |-> text],
                args |-> [prompt |-> prompt, image |-> image,
                          num_inference_steps |-> 20, eta |-> 0,
                          negative_prompt |-> self.n_prompt, guidance_scale |-> 9]])
        /\ UNCHANGED <<env, gs, ctor, requests, provider, lastReply, last,
                       cache, heap, loads>>

\* ScribbleTextToImage.apply, lines 56-65
ScribbleTextToImage_apply(t, image, text) ==
    LET self == tools[t]
        prompt == text \o ", " \o self.a_prompt
    IN  /\ ToolClass(t) = "ScribbleTextToImage"
        /\ IsSetUp(t)
        /\ CallsSoFar < MaxApply
        /\ applied' = [applied EXCEPT ![t] = @ + 1]
        /\ modelCalls' = Append(modelCalls,
               [tool |-> t, handle |-> self.handle,
                inputs |-> [image |-> image, text |-> text],
                args |-> [prompt |-> prompt, image |-> image,
                          num_inference_steps |-> 20, eta |-> 0,
                          negative_prompt |-> self.n_prompt, guidance_scale |-> 9]])
        /\ UNCHANGED <<env, gs, ctor, requests, provider, lastReply, last,
                       cache, heap, loads, tools>>

\* VisualQuestionAnswering.apply, lines 49-50
VisualQuestionAnswering_apply(t, image, text) ==
    LET self == tools[t]
    IN  /\ ToolClass(t) = "VisualQuestionAnswering"
        /\ IsSetUp(t)
        /\ CallsSoFar < MaxApply
        /\ applied' = [applied EXCEPT ![t] = @ + 1]
        /\ modelCalls' = Append(modelCalls,
               [tool |-> t, handle |-> self.handle,
                inputs |-> [image |-> image, text |-> text],
                args |-> [image |-> image, text |-> text]])
        /\ UNCHANGED <<env, gs, ctor, requests, provider, lastReply, last,
                       cache, heap, loads, tools>>

-----------------------------------------------------------------------------
(* The inputs explored for GoogleSearch                                    *)

EnvValues == {NoneVal, "", "sk-env"}
ApiKeyArgs == {"env", "", NoneVal, "sk-arg"}
Timeouts == {5}
SearchTypes == {"search"}
\* caps below, around and above the lengths of the outputs explored
OutLens == {0, 10, 30, 100}
KValues == 0..MaxK
Queries == {"q1", "q2"}

Present(v) == [present |-> TRUE, v |-> v]
Absent == [present |-> FALSE, v |-> EmptyDict]

AnswerBoxes ==
    { Absent,
      Present(EmptyDict),
      Present([answer |-> "A", snippet |-> "S", snippetHighlighted |-> "H"]),
      Present([answer |-> "", snippet |-> "S", snippetHighlighted |-> "H"]),
      Present([snippetHighlighted |-> "H"]),
      Present([snippet |-> " S\nS "]),
      Present([answer |-> ""]) }

KnowledgeGraphs ==
    { Absent,
      Present(EmptyDict),
      Present([title |-> "T", type |-> "Y", description |-> "D",
               attributes |-> << <<"a", "1">>, <<"b", "2">> >>]),
      Present([description |-> "D\n"]),
      Present([type |-> "Y", attributes |-> << <<"a", "1">> >>]) }

Items ==
    { [title |-> "T1", link |-> "u1", snippet |-> "s1"],
      [title |-> "T2", snippet |-> "s2", attributes |-> << <<"a", "1">> >>],
      [title |-> " T3", snippet |-> "s\n3 "],
      EmptyDict }

ItemLists == UNION { [1..n -> Items] : n \in 0..MaxItems }

CategoryLists == {Absent} \cup { Present(l) : l \in ItemLists }

Entry(key, opt) == IF opt.present THEN key :> opt.v ELSE EmptyDict

ResultBodies ==
    { [json |-> TRUE,
       value |-> Entry("answerBox", ab) @@ Entry("knowledgeGraph", kg)
                 @@ Entry("organic", cat)] :
      ab \in AnswerBoxes, kg \in KnowledgeGraphs, cat \in CategoryLists }

NotJsonBody == [json |-> FALSE, raw |-> "<html>Bad Gateway</html>"]
ErrorBody == [json |-> TRUE, value |-> [message |-> "Unauthorized"]]

Replies ==
    { [kind |-> "exception", text |-> "Read timed out."] }
    \cup { [kind |-> "response", status |-> st, body |-> b] :
           st \in {403, 502}, b \in {NotJsonBody, ErrorBody} }
    \cup { [kind |-> "response", status |-> 200, body |-> b] :
           b \in ResultBodies \cup {NotJsonBody} }

\* the replies explored where each POST may be answered differently
FewReplies ==
    { [kind |-> "exception", text |-> "Read timed out."] }
    \cup { [kind |-> "response", status |-> st, body |-> b] :
           st \in {403, 502}, b \in {NotJsonBody, ErrorBody} }
    \cup { [kind |-> "response", status |-> 200, body |-> b] :
           b \in { NotJsonBody,
                   [json |-> TRUE, value |-> [organic |-> <<>>]],
                   [json |-> TRUE,
                    value |-> [answerBox |-> [answer |-> "A"],
                               organic |-> << [title |-> "T1", snippet |-> "s1"] >>]] } }

ModelTools == {"scribble", "scribble2", "vqa"}
ToolNames == {"search"} \cup ModelTools

\* nothing built, nothing called
Fresh ==
    /\ gs = NoInstance("unbuilt", "")
    /\ ctor = NoCall
    /\ requests = <<>>
    /\ applied = [t \in ToolNames |-> 0]
    /\ lastReply = NoReply
    /\ last = NotApplied
    /\ cache = <<>>
    /\ heap = <<>>
    /\ loads = <<>>
    /\ tools = [t \in ModelTools |-> NoTool]
    /\ modelCalls = <<>>

-----------------------------------------------------------------------------
(* SpecSearch: construction and calls of GoogleSearch, every POST answered *)
(* as the provider pleases                                                 *)

InitSearch == env \in EnvValues /\ provider = NoReply /\ Fresh

Construct ==
    \E api_key \in ApiKeyArgs, timeout \in Timeouts, search_type \in SearchTypes,
       max_out_len \in OutLens, with_url \in BOOLEAN, k \in KValues :
        GoogleSearch_init(api_key, timeout, search_type, max_out_len, with_url, k)

Apply == \E query \in Queries, reply \in FewReplies : GoogleSearch_apply(query, reply)

NextSearch == Construct \/ Apply

SpecSearch == InitSearch /\ [][NextSearch]_vars

-----------------------------------------------------------------------------
(* SpecParse: _parse_results over every response explored; the response is *)
(* drawn at the start and the tool is built with a key                     *)

InitParse == env = "sk-env" /\ provider \in Replies /\ Fresh

ConstructWithKey ==
    \E timeout \in Timeouts, search_type \in SearchTypes,
       max_out_len \in OutLens, with_url \in BOOLEAN, k \in KValues :
        GoogleSearch_init("env", timeout, search_type, max_out_len, with_url, k)

ApplyToProvider == GoogleSearch_apply("q1", provider)

NextParse == ConstructWithKey \/ ApplyToProvider

SpecParse == InitParse /\ [][NextParse]_vars

-----------------------------------------------------------------------------
(* SpecLoader: calls of load_sd and load_sdxl, and tools set up through    *)
(* load_or_build_object                                                    *)

ModelIds == {"sd"}
Variants == {"fp16"}
VaeIds == {NoneVal, "vae"}
ControlNetIds == {NoneVal, "cn"}
Devices == {"cpu", "cuda"}

InitLoader == env = NoneVal /\ provider = NoReply /\ Fresh

CallLoadSd ==
    \E model \in ModelIds, variant \in Variants, vae \in VaeIds,
       controlnet \in ControlNetIds, device \in Devices :
        load_sd(model, variant, vae, NoneVal, controlnet, NoneVal, device)

CallLoadSdxl ==
    \E model \in ModelIds, variant \in Variants, vae \in VaeIds,
       controlnet \in ControlNetIds, device \in Devices :
        load_sdxl(model, variant, vae, NoneVal, controlnet, NoneVal, device)

BuildOnCuda == \E t \in ModelTools : Tool_init(t, "m", "cuda")

SetUp ==
    \E t \in ModelTools : ScribbleTextToImage_setup(t) \/ VisualQuestionAnswering_setup(t)

NextLoader == CallLoadSd \/ CallLoadSdxl \/ BuildOnCuda \/ SetUp

SpecLoader == InitLoader /\ [][NextLoader]_vars

-----------------------------------------------------------------------------
(* SpecTools: the life of one instance of each tool: construct, setup(),   *)
(* apply() any number of times                                             *)

Images == {"img"}
Texts == {"cat", "dog"}

InitTools == env = "sk-env" /\ provider = NoReply /\ Fresh

BuildSearch == GoogleSearch_init("env", 5, "search", 1500, FALSE, 10)

BuildTool == \E t \in {"scribble", "vqa"}, device \in Devices : Tool_init(t, "m", device)

ApplySearch ==
    \E query \in Queries, reply \in FewReplies : GoogleSearch_apply(query, reply)

ApplyScribble ==
    \E t \in ModelTools, image \in Images, text \in Texts :
        ScribbleTextToImage_apply(t, image, text)

ApplyVqa ==
    \E t \in ModelTools, image \in Images, text \in Texts :
        VisualQuestionAnswering_apply(t, image, text)

NextTools ==
    BuildSearch \/ BuildTool \/ SetUp \/ ApplySearch \/ ApplyScribble \/ ApplyVqa

SpecTools == InitTools /\ [][NextTools]_vars

-----------------------------------------------------------------------------
(* Properties of GoogleSearch                                              *)

StartsWith(s, p) == Len(s) >= Len(p) /\ SubSeq(s, 1, Len(p)) = p
EndsWith(s, p) == Len(s) >= Len(p) /\ SubSeq(s, Len(s) - Len(p) + 1, Len(s)) = p

\* the last reply was a JSON response with status 200
Got200 ==
    /\ lastReply.kind = "response"
    /\ lastReply.status = 200
    /\ lastReply.body.json

GotNon200 == lastReply.kind = "response" /\ lastReply.status # 200

Body == lastReply.body.value

BoxOf(results, key) == IF key \in DOMAIN results THEN results[key] ELSE EmptyDict

\* the key is missing from the response, or holds an empty object
AbsentOrEmpty(results, key) == DOMAIN BoxOf(results, key) = {}

\* the numbered text before any truncation
Numbered == NumberFrom(last.snippets, 0)

\* a fragment as it is printed: stripped, newlines replaced by spaces
Printed(s) == ReplaceNewline(Strip(s))

\* what the cap makes of a text
Capped(text) ==
    IF Len(text) <= gs.max_out_len THEN text
    ELSE SubSeq(text, 1, gs.max_out_len) \o "..."

C2_Non200RaisesConnectionError ==
    GotNon200 =>
        /\ last.kind = "raise"
        /\ last.exc = "ConnectionError"
        /\ Contains(last.msg, IntToStr(lastReply.status))
        /\ Contains(last.msg, IF lastReply.body.json
                              THEN DictStr(lastReply.body.value)
                              ELSE lastReply.body.raw)

\* the constructor was given no usable key
NoUsableKey ==
    /\ ctor.called
    /\ \/ ctor.api_key \in {"", NoneVal}
       \/ ctor.api_key = "env" /\ env \in {"", NoneVal}

\* C3: constructing GoogleSearch with no usable API key raises ValueError in
\* the constructor, and no request is ever issued for that object.
C3_NoKeyFailsBeforeAnyRequest ==
    NoUsableKey =>
        /\ gs.st = "failed"
        /\ gs.err = "ValueError"
        /\ requests = <<>>
        /\ applied["search"] = 0

C3_Witness ==
    /\ ctor.called /\ ctor.api_key = "env" /\ env = ""
    /\ gs.st = "failed"

\* C4 as stated: a status-200 response with answer box absent or empty,
\* knowledge graph absent or empty and category list empty or absent makes
\* apply return the sentinel.
C4_AsStated ==
    ( /\ Got200 /\ last.kind # "none"
      /\ AbsentOrEmpty(Body, "answerBox")
      /\ AbsentOrEmpty(Body, "knowledgeGraph")
      /\ ("organic" \notin DOMAIN Body \/ Len(Body["organic"]) = 0) )
    => (last.kind = "return" /\ last.value = NoResultSentinel)

\* C4 amended: a status-200 response with answer box absent or empty,
\* knowledge graph absent or empty and a category list that is present and
\* yields no result (it is empty, or k = 0) makes apply return the sentinel;
\* a response without the category list makes apply raise KeyError.
C4_Sentinel ==
    /\ ( /\ Got200 /\ last.kind # "none"
         /\ AbsentOrEmpty(Body, "answerBox")
         /\ AbsentOrEmpty(Body, "knowledgeGraph")
         /\ "organic" \in DOMAIN Body
         /\ (Len(Body["organic"]) = 0 \/ gs.k = 0) )
       => (last.kind = "return" /\ last.value = NoResultSentinel)
    /\ (Got200 /\ last.kind # "none" /\ "organic" \notin DOMAIN Body)
       => (last.kind = "raise" /\ last.exc = "KeyError")

C4_Witness ==
    /\ Got200 /\ last.kind = "return"
    /\ "answerBox" \in DOMAIN Body /\ DOMAIN Body["answerBox"] = {}
    /\ "organic" \in DOMAIN Body /\ Len(Body["organic"]) = 0
    /\ gs.k > 0
    /\ last.value = NoResultSentinel

\* the response holds a category list and neither of the two boxes
OnlyCategoryList ==
    /\ Got200 /\ last.kind # "none"
    /\ DOMAIN Body = {"organic"}
    /\ \A i \in 1..Len(Body["organic"]) :
          Has(Body["organic"][i], "title") /\ Has(Body["organic"][i], "snippet")

RECURSIVE C5_Lines(_, _, _)
C5_Lines(items, i, n) ==
    IF i > n THEN ""
    ELSE IntToStr(i) \o " - " \o items[i]["title"] \o ": " \o items[i]["snippet"]
         \o "\n\n" \o C5_Lines(items, i + 1, n)

RECURSIVE C5_PrintedLines(_, _, _)
C5_PrintedLines(items, i, n) ==
    IF i > n THEN ""
    ELSE IntToStr(i) \o " - "
         \o Printed(items[i]["title"] \o ": " \o items[i]["snippet"])
         \o "\n\n" \o C5_PrintedLines(items, i + 1, n)

\* C5 as stated: for a response with only a category list of n items, each
\* with title and snippet, and with_url False, the output is exactly the
\* min(k, n) entries '{i} - {title}: {snippet}\n\n' in input order, provided
\* their total length does not exceed max_out_len.
C5_AsStated ==
    LET items == Body["organic"]
        expected == C5_Lines(items, 1, Min(gs.k, Len(items)))
    IN  (OnlyCategoryList /\ ~gs.with_url /\ Len(expected) <= gs.max_out_len)
        => (last.kind = "return" /\ last.value = expected)

\* C5 amended: ... of n >= 1 items, each with title and snippet and without
\* attributes, k >= 1 and with_url False, the output is exactly the min(k, n)
\* entries '{i} - {text}\n\n' in input order, text being '{title}: {snippet}'
\* with surrounding whitespace stripped and newlines replaced by spaces,
\* provided their total length does not exceed max_out_len.
C5_CategoryLines ==
    LET items == Body["organic"]
        expected == C5_PrintedLines(items, 1, Min(gs.k, Len(items)))
    IN  ( /\ OnlyCategoryList /\ ~gs.with_url
          /\ Len(items) >= 1 /\ gs.k >= 1
          /\ \A i \in 1..Len(items) : ~Has(items[i], "attributes")
          /\ Len(expected) <= gs.max_out_len )
        => (last.kind = "return" /\ last.value = expected)

C5_Witness ==
    /\ OnlyCategoryList /\ ~gs.with_url
    /\ gs.k = 2 /\ Len(Body["organic"]) = 2
    /\ Has(Body["organic"][1], "link")
    /\ ~Has(Body["organic"][2], "link") /\ ~Has(Body["organic"][2], "attributes")
    /\ last.kind = "return"
    /\ StartsWith(last.value, "1 - T1: s1\n\n2 - T3: s 3\n\n")
    /\ ~EndsWith(last.value, "...")

\* the fragments in the order the claim gives them
BoxCount(key) == IF AbsentOrEmpty(Body, key) THEN 0 ELSE 1

HasNewline(s) == \E i \in 1..Len(s) : SubSeq(s, i, i) = "\n"

RECURSIVE C6_Numbered(_, _)
C6_Numbered(frags, i) ==
    IF i > Len(frags) THEN ""
    ELSE IntToStr(i) \o " - " \o Printed(frags[i]) \o "\n\n" \o C6_Numbered(frags, i + 1)

\* C6: the output for a status-200 response lists the answer box fragment
\* (if any), then the knowledge graph fragment (if any), then at most k
\* category results in response order, numbered 1, 2, 3, ... in that order,
\* no printed fragment holding a newline.
C6_PriorityOrder ==
    (Got200 /\ last.kind = "return" /\ Len(last.snippets) > 0) =>
        LET frags == last.snippets
            a == BoxCount("answerBox")
            g == BoxCount("knowledgeGraph")
            items == Body["organic"]
            m == Len(frags) - a - g
        IN  /\ m >= 0 /\ m <= gs.k /\ m = Min(gs.k, Len(items))
            /\ (a = 1 => StartsWith(frags[1], "Answer box: "))
            /\ (g = 1 => Contains(frags[a + 1], "nowledge graph: "))
            /\ \A i \in 1..m :
                  /\ Has(items[i], "title") => StartsWith(frags[a + g + i], items[i]["title"])
                  /\ Has(items[i], "snippet") => Contains(frags[a + g + i], items[i]["snippet"])
                  /\ ~StartsWith(frags[a + g + i], "Answer box: ")
                  /\ ~Contains(frags[a + g + i], "nowledge graph: ")
            /\ \A i \in 1..Len(frags) : ~HasNewline(Printed(frags[i]))
            /\ last.value = Capped(C6_Numbered(frags, 1))

C6_Witness ==
    /\ Got200 /\ last.kind = "return"
    /\ BoxCount("answerBox") = 1 /\ BoxCount("knowledgeGraph") = 1
    /\ gs.k = 1 /\ Len(Body["organic"]) = 2
    /\ Len(last.snippets) = 3
    /\ StartsWith(last.value, "1 - Answer box: ")
    /\ Contains(last.value, "\n\n2 - T knowledge graph: ")
    /\ Contains(last.value, "\n\n3 - T1: ")

\* C7: every apply issues exactly one POST; a transport exception or a
\* non-200 status makes it raise a connection/service error at once, and a
\* 200 makes it return, with no further request either way.
C7_OnePostNoRetry ==
    /\ Len(requests) = applied["search"]
    /\ (lastReply.kind = "exception" \/ GotNon200) =>
           (last.kind = "raise" /\ last.exc = "ConnectionError")

\* the part of C7 that counts the requests
OnePostPerApply == Len(requests) = applied["search"]

\* C9: with a non-empty answer box, fragment 1 is the one answer box
\* fragment: 'Answer box: ' followed by the answer if present, else the
\* snippet if present, else the highlighted snippet.
C9_AnswerBoxPriority ==
    (Got200 /\ last.kind = "return" /\ ~AbsentOrEmpty(Body, "answerBox")) =>
        LET box == Body["answerBox"]
            frag == last.snippets[1]
        IN  /\ Has(box, "answer") => frag = "Answer box: " \o box["answer"]
            /\ (~Has(box, "answer") /\ Has(box, "snippet")) =>
                   frag = "Answer box: " \o box["snippet"]
            /\ (~Has(box, "answer") /\ ~Has(box, "snippet")
                /\ Has(box, "snippetHighlighted")) =>
                   frag = "Answer box: " \o box["snippetHighlighted"]
            /\ \A i \in 2..Len(last.snippets) :
                  ~StartsWith(last.snippets[i], "Answer box: ")
            /\ last.value = Capped(C6_Numbered(last.snippets, 1))
            /\ StartsWith("1 - " \o Printed(frag) \o "\n\n",
                          SubSeq(last.value, 1, Min(gs.max_out_len, 4 + Len(Printed(frag)))))

C9_Witness ==
    /\ Got200 /\ last.kind = "return"
    /\ "answerBox" \in DOMAIN Body
    /\ DOMAIN Body["answerBox"] = {"answer", "snippet", "snippetHighlighted"}
    /\ Body["answerBox"]["answer"] = ""
    /\ last.snippets[1] = "Answer box: S"
    /\ StartsWith(last.value, "1 - Answer box: S\n\n")

-----------------------------------------------------------------------------
(* Properties of the loaders and of the tools' life cycle                  *)

SameCall(i, j) == loads[i].fn = loads[j].fn /\ loads[i].args = loads[j].args

\* the classes built by from_pretrained behind the cache
PretrainedClasses ==
    {"AutoencoderKL", "ControlNetModel", "StableDiffusionPipeline",
     "StableDiffusionXLPipeline"}

SameBuild(a, b) ==
    /\ heap[a].cls = heap[b].cls /\ heap[a].model = heap[b].model
    /\ heap[a].variant = heap[b].variant /\ heap[a].dtype = heap[b].dtype
    /\ heap[a].vae = heap[b].vae

\* C8 as stated: two loader calls with equal arguments return the identical
\* object, a controlnet requested or not.
C8_AsStated ==
    \A i, j \in 1..Len(loads) : SameCall(i, j) => loads[i].ret = loads[j].ret

\* C8 amended: two load_or_build_object calls with equal keys (the tools'
\* setup() among them) return the identical object, and so do two load_sd /
\* load_sdxl calls with equal arguments and no controlnet; with a controlnet
\* each call returns a new pipeline object whose text-to-image pipeline, vae
\* and controlnet are the identical cached objects.  Each pretrained object
\* is built once and stays in the cache.
C8_CachedIdentity ==
    /\ \A i, j \in 1..Len(loads) :
          SameCall(i, j) =>
              IF loads[i].args.controlnet = NoneVal
              THEN loads[i].ret = loads[j].ret
              ELSE /\ heap[loads[i].ret].base = heap[loads[j].ret].base
                   /\ heap[loads[i].ret].controlnet = heap[loads[j].ret].controlnet
                   /\ heap[loads[i].ret].vae = heap[loads[j].ret].vae
                   /\ heap[loads[i].ret].base # 0
                   /\ heap[loads[i].ret].controlnet # 0
    /\ \A t, u \in ModelTools :
          ( /\ tools[t].ready /\ tools[u].ready
            /\ tools[t].cls = tools[u].cls /\ tools[t].model = tools[u].model
            /\ tools[t].device = tools[u].device )
          => (tools[t].handle = tools[u].handle /\ tools[t].handle # 0)
    /\ \A a, b \in 1..Len(heap) :
          (a # b /\ heap[a].cls \in PretrainedClasses) => ~SameBuild(a, b)
    /\ \A a \in 1..Len(heap) :
          heap[a].cls \in PretrainedClasses => \E key \in DOMAIN cache : cache[key] = a

C8_Witness ==
    /\ Len(loads) = 2
    /\ SameCall(1, 2)
    /\ loads[1].args.controlnet # NoneVal /\ loads[1].args.vae # NoneVal
    /\ loads[1].ret # loads[2].ret
    /\ heap[loads[1].ret].base = heap[loads[2].ret].base
    /\ tools["scribble"].ready /\ tools["scribble2"].ready
    /\ tools["scribble"].handle = tools["scribble2"].handle

CallsOf(t) == Cardinality({i \in 1..Len(modelCalls) : modelCalls[i].tool = t})

\* what the calls made so far show
C10_Calls ==
    /\ \A i, j \in 1..Len(modelCalls) :
          (modelCalls[i].tool = modelCalls[j].tool
           /\ modelCalls[i].inputs = modelCalls[j].inputs)
          => (modelCalls[i].args = modelCalls[j].args
              /\ modelCalls[i].handle = modelCalls[j].handle)
    /\ \A i \in 1..Len(modelCalls) :
          /\ modelCalls[i].handle = tools[modelCalls[i].tool].handle
          /\ modelCalls[i].handle # 0
    /\ \A i, j \in 1..Len(requests) :
          requests[i].params.q = requests[j].params.q => requests[i] = requests[j]
    /\ Len(requests) = applied["search"]
    /\ \A t \in ModelTools : CallsOf(t) = applied[t]

\* what a step that is an apply() changes
C10_Frame ==
    \A t \in ToolNames :
        applied'[t] = applied[t] + 1 =>
            /\ gs' = gs /\ tools' = tools /\ cache' = cache /\ heap' = heap
            /\ Len(requests') + Len(modelCalls') = Len(requests) + Len(modelCalls) + 1

\* C10: every apply() leaves the instance's configuration and its loaded
\* handle as they were, uses the handle setup() stored, and makes exactly one
\* call of the underlying model or client, so that equal inputs reach that
\* call with equal arguments.
C10_ApplyKeepsInstance == [](C10_Calls) /\ [][C10_Frame]_vars

C10_Witness ==
    /\ Len(modelCalls) = 2
    /\ modelCalls[1].tool = "scribble" /\ modelCalls[2].tool = "scribble"
    /\ modelCalls[1].inputs = modelCalls[2].inputs
    /\ modelCalls[1].args.prompt = "cat, " \o A_PROMPT
    /\ tools["scribble"].a_prompt = A_PROMPT

====
